---- MODULE Spec2Model ----
\* Model of src/decoder/opus.rs: OpusDecoder, the Ogg/Opus packet-to-PCM
\* iterator (construction, load_next_chunk, Iterator::next).
\*
\* The Ogg packet reader, the Opus decode call and the header parser are
\* collaborators outside the file.  They are modelled by their outcome: a
\* packet read succeeds or fails, a decode call succeeds or fails, the header
\* parse yields a metadata record or an error.
\*
\* Iterator::next is recursive (line 176).  One call frame of next is two
\* steps of the model (lines 163-170, then lines 172-183); `depth` counts the
\* frames on the stack.  The build modelled is the one without tail-call
\* elimination (a debug build): a recursion deeper than the stack holds ends
\* the process.
EXTENDS Integers, Sequences, FiniteSets, TLC

\* ---------------------------------------------------------------- bounds
MaxPackets == 2      \* audio packets in a container of the general family
MaxE2E == 2          \* audio packets in a 48 kHz configuration-13 stream
MaxStart == 1        \* read position of the byte stream before construction
StackSlack == 2      \* frames the stack holds beyond one per container packet

\* The stack holds more frames than a finite container can legitimately use
\* (one per packet plus the frame that meets the end of the container).
StackLimit == (IF MaxPackets > MaxE2E THEN MaxPackets ELSE MaxE2E) + 1 + StackSlack

\* ------------------------------------------------------------- constants
FrameLen == 240            \* current_frame_len
OutputRate == 48000        \* sample_rate()

None == "None"
NoMeta == [channel_count |-> 0, sample_rate |-> 0]

GenRates == {50}           \* declared sample rates, general family
SweepRates == {400, 1000}  \* declared sample rates, all-TOC-bytes family
GenTocs == {108, 24, 130}  \* (c13,s,f0) (c3,m,f0) (c16,m,f2)
SampleStride == 2000

VARIABLES
    pc,          \* position of the program
    mode,        \* which constructor the caller uses: "new" | "reader"
    container,   \* the packets of the Ogg container, in order (input)
    hdrParse,    \* what OpusMeta::with_headers yields for the two headers (input)
    startPos,    \* read position of the byte stream before construction
    streamPos,   \* read position of the byte stream
    pktIdx,      \* packets consumed from the packet reader
    eof,         \* a packet read has met the end of the container
    metadata,    \* self.metadata (NoMeta before construction)
    ctorResult,  \* what the constructor returned: "Ok" | "ErrData" | "InvalidHeaderData"
    buffer,      \* self.buffer
    buffer_pos,  \* self.buffer_pos
    toc,         \* locals c, s, f, frame_size of the last load_next_chunk
    loadRes,     \* result of the last load_next_chunk: "Ok" | "Err" | None
    depth,       \* frames of next() on the stack
    result,      \* Option returned by the last completed next(): <<>> or <<sample>>
    requests,    \* next() requests made by the consumer (history)
    emitted,     \* every sample returned so far (history)
    reqLoads,    \* load_next_chunk calls made by the current request (history)
    reqFails,    \* of which failed (history)
    chunkLen,    \* buffer length of the last successfully loaded chunk (history)
    chunkOut,    \* samples returned from that chunk (history)
    lastIdx,     \* buffer index read by the last return (history)
    reqStart,    \* packets consumed when the current request began (history)
    facade       \* what the last query of the Source methods reported

vars == <<pc, mode, container, hdrParse, startPos, streamPos, pktIdx, eof,
          metadata, ctorResult, buffer, buffer_pos, toc, loadRes, depth,
          result, requests, emitted, reqLoads, reqFails, chunkLen, chunkOut, lastIdx,
          reqStart, facade>>

\* ------------------------------------------------------------- packets
HeaderPkt(r) == [rd |-> r, data |-> <<79, 0>>, dec |-> TRUE]
AudioPkt(b, seed, d) == [rd |-> TRUE, data |-> <<b, seed>>, dec |-> d]
EmptyPkt == [rd |-> TRUE, data |-> <<>>, dec |-> FALSE]
BadPkt(seed) == [rd |-> FALSE, data |-> <<0, seed>>, dec |-> FALSE]

\* bytes of the stream a packet occupies (framing + payload)
PacketBytes(p) == 1 + Len(p.data)

\* PacketReader::read_packet_expected at packet cursor idx.  A packet that
\* cannot be read is skipped by the reader; at the end of the container
\* every read fails and nothing is consumed.
ReadPacketExpected(cont, idx) ==
    IF idx >= Len(cont)
    THEN [ok |-> FALSE, eof |-> TRUE, idx |-> idx, used |-> 0, data |-> <<>>, dec |-> FALSE]
    ELSE [ok |-> cont[idx + 1].rd, eof |-> FALSE, idx |-> idx + 1,
          used |-> PacketBytes(cont[idx + 1]),
          data |-> cont[idx + 1].data, dec |-> cont[idx + 1].dec]

\* read_metadata that parses without reading the comment header
ReadMetadataOnePacket(cont, idx, parse) ==
    LET id == ReadPacketExpected(cont, idx) IN
    IF ~id.ok
    THEN [ok |-> FALSE, err |-> "InvalidHeaderData", meta |-> NoMeta,
          idx |-> id.idx, used |-> id.used, eof |-> id.eof]
    ELSE IF ~parse.ok
    THEN [ok |-> FALSE, err |-> "InvalidHeaderData", meta |-> NoMeta,
          idx |-> id.idx, used |-> id.used, eof |-> FALSE]
    ELSE [ok |-> TRUE, err |-> None, meta |-> parse.meta,
          idx |-> id.idx, used |-> id.used, eof |-> FALSE]

\* read_metadata that reads the comment header before it looks at the result
\* of reading the identification header
ReadMetadataEager(cont, idx, parse) ==
    LET id == ReadPacketExpected(cont, idx)
        cm == ReadPacketExpected(cont, id.idx)
    IN IF ~id.ok \/ ~cm.ok \/ ~parse.ok
       THEN [ok |-> FALSE, err |-> "InvalidHeaderData", meta |-> NoMeta,
             idx |-> cm.idx, used |-> id.used + cm.used, eof |-> (id.eof \/ cm.eof)]
       ELSE [ok |-> TRUE, err |-> None, meta |-> parse.meta,
             idx |-> cm.idx, used |-> id.used + cm.used, eof |-> FALSE]

\* read_metadata: identification header, then comment header, then parse.
ReadMetadata(cont, idx, parse) ==
    LET id == ReadPacketExpected(cont, idx) IN
    IF ~id.ok
    THEN [ok |-> FALSE, err |-> "InvalidHeaderData", meta |-> NoMeta,
          idx |-> id.idx, used |-> id.used, eof |-> id.eof]
    ELSE LET cm == ReadPacketExpected(cont, id.idx) IN
         IF ~cm.ok
         THEN [ok |-> FALSE, err |-> "InvalidHeaderData", meta |-> NoMeta,
               idx |-> cm.idx, used |-> id.used + cm.used, eof |-> cm.eof]
         ELSE IF ~parse.ok
         THEN [ok |-> FALSE, err |-> "InvalidHeaderData", meta |-> NoMeta,
               idx |-> cm.idx, used |-> id.used + cm.used, eof |-> FALSE]
         ELSE [ok |-> TRUE, err |-> None, meta |-> parse.meta,
               idx |-> cm.idx, used |-> id.used + cm.used, eof |-> FALSE]

\* a rewind to the start of the stream instead of the saved position
RewindToStart(stream_pos) == 0

\* OpusDecoder::new, line 33: where the stream is rewound to on failure.
RewindTarget(stream_pos) == stream_pos

\* ------------------------------------------------------------- TOC byte
Pow2(n) == IF n = 0 THEN 1 ELSE IF n = 1 THEN 2 ELSE IF n = 2 THEN 4
           ELSE IF n = 3 THEN 8 ELSE IF n = 4 THEN 16 ELSE IF n = 5 THEN 32
           ELSE IF n = 6 THEN 64 ELSE 128

\* BitReader::new(&data[0..1]): the bits of the byte, most significant first
Bits(b) == [i \in 1..8 |-> (b \div Pow2(8 - i)) % 2]

RECURSIVE ReadBits(_, _, _)
\* BitReader::read_u8(n) at bit offset off: n bits, most significant first
ReadBits(bits, off, n) ==
    IF n = 0 THEN 0
    ELSE 2 * ReadBits(bits, off, n - 1) + bits[off + n]

MaxOf(a, b) == IF a >= b THEN a ELSE b

\* the table with the Hybrid configurations 12..15 treated like SILK ones
FrameSizeHybridAsSilk(c) ==
    CASE c \in {0, 4, 8, 12, 18, 22, 26, 30} -> 100
      [] c \in {1, 5, 9, 13, 19, 23, 27, 31} -> 200
      [] c \in {2, 6, 10, 14} -> 400
      [] c \in {3, 7, 11, 15} -> 600
      [] c \in {16, 20, 24, 28} -> 25
      [] c \in {17, 21, 25, 29} -> 50
      [] OTHER -> 0

\* lines 103-113, in tenths of a millisecond; 0 is the panic arm
FrameSize(c) ==
    CASE c \in {0, 4, 8, 12, 14, 18, 22, 26, 30} -> 100
      [] c \in {1, 5, 9, 13, 15, 19, 23, 27, 31} -> 200
      [] c \in {2, 6, 10} -> 400
      [] c \in {3, 7, 11} -> 600
      [] c \in {16, 20, 24, 28} -> 25
      [] c \in {17, 21, 25, 29} -> 50
      [] OTHER -> 0

\* the TOC parse without the floor of one frame
ParseTocNoFloor(b) ==
    LET bits == Bits(b)
        c == ReadBits(bits, 0, 5)
        s == ReadBits(bits, 5, 1)
        f == ReadBits(bits, 6, 2)
    IN [byte |-> b, c |-> c, s |-> s, f |-> f, frame_size |-> FrameSize(c)]

\* lines 96-100 and 103-113
ParseToc(b) ==
    LET bits == Bits(b)
        c == ReadBits(bits, 0, 5)
        s == ReadBits(bits, 5, 1)
        f == MaxOf(ReadBits(bits, 6, 2), 1)
    IN [byte |-> b, c |-> c, s |-> s, f |-> f, frame_size |-> FrameSize(c)]

\* lines 117-119: (1000.0 / frame_size) as u32 truncates; the rest is u32
\* arithmetic.  The divisor is at least 16 and f * channels at most 6, so the
\* product is below sample_rate and never wraps.
BufferLen(sample_rate, frame_size, f, s) ==
    (sample_rate \div (10000 \div frame_size)) * f * (IF s = 0 THEN 1 ELSE 2)

\* Decoder::decode on success: the PCM the payload decodes to
Pcm(data, n) == [i \in 1..n |-> data[2] * SampleStride + i]

\* Decoder::decode on failure: the zeroed buffer with its first k samples written
PartialPcm(data, n, k) == [i \in 1..n |-> IF i <= k THEN data[2] * SampleStride + i ELSE 0]

\* the comparison of line 173 off by one
PastEndInclusive(pos, len) == pos >= len

\* the comparison of line 173 off by one the other way
PastEndLate(pos, len) == pos > len + 1

\* line 173
PastEnd(pos, len) == pos > len

\* the test of line 163 true for every buffer
NeedsLoadAlways(buf) == TRUE

\* line 163: self.buffer.is_empty()
NeedsLoad(buf) == buf = <<>>

\* a failed load that leaves the buffer as load_next_chunk left it
KeepBuffer(buf) == buf

\* line 165: self.buffer.clear()
BufferAfterFailedLoad(buf) == <<>>

\* a successful load that forgets to reset the cursor
CursorKept(pos) == pos

\* line 168: self.buffer_pos = 0
CursorAfterLoad(pos) == 0

NoToc == [byte |-> 0, c |-> 0, s |-> 0, f |-> 0, frame_size |-> 0]

\* ------------------------------------------------------------- Source
\* a frame length that follows the buffer
CurrentFrameLenOfBuffer(buf) == <<Len(buf)>>

\* lines 138-140: Some(240)
CurrentFrameLen(buf) == <<FrameLen>>

\* lines 142-144: channel_count as u16 (u8 widened, value kept)
Channels(meta) == meta.channel_count

\* lines 146-148
SampleRate(meta) == OutputRate

\* lines 150-152: None
TotalDuration == <<>>

NoFacade == [queried |-> FALSE, current_frame_len |-> <<>>, channels |-> 0,
             sample_rate |-> 0, total_duration |-> <<>>, atLen |-> 0]

\* ------------------------------------------------------------- inputs
SeqsUpTo(S, n) == UNION {[1..k -> S] : k \in 0..n}

Headers == <<HeaderPkt(TRUE), HeaderPkt(TRUE)>>

GenKinds == {<<"bad", 0, FALSE>>, <<"empty", 0, FALSE>>}
            \cup {<<"audio", b, d>> : b \in GenTocs, d \in BOOLEAN}

MkPkt(kind, i) ==
    IF kind[1] = "bad" THEN BadPkt(i)
    ELSE IF kind[1] = "empty" THEN EmptyPkt
    ELSE AudioPkt(kind[2], i, kind[3])

GenContainers ==
    {Headers \o [i \in 1..Len(ks) |-> MkPkt(ks[i], i)] : ks \in SeqsUpTo(GenKinds, MaxPackets)}

SweepContainers == {Headers \o <<AudioPkt(b, 1, TRUE)>> : b \in 0..255}

\* configuration 13, stereo, one frame: frame-count code 0 or 1
E2EContainers ==
    {Headers \o [i \in 1..n |-> AudioPkt(13 * 8 + 4 + (i % 2), i, TRUE)] : n \in 0..MaxE2E}

\* containers on which reading the metadata fails
BrokenContainers ==
    {<<>>, <<HeaderPkt(FALSE)>>, <<HeaderPkt(TRUE)>>,
     <<HeaderPkt(FALSE), HeaderPkt(TRUE), AudioPkt(108, 1, TRUE)>>,
     <<HeaderPkt(TRUE), HeaderPkt(FALSE), AudioPkt(108, 1, TRUE)>>}

ParseOk(ch, rate) == [ok |-> TRUE, meta |-> [channel_count |-> ch, sample_rate |-> rate]]
ParseErr == [ok |-> FALSE, meta |-> NoMeta]

\* both constructors on every container of the general and the broken family;
\* the start position of the byte stream varies where construction fails
Inputs ==
    {[c |-> c, p |-> ParseOk(ch, r), m |-> m, s |-> 0] :
        c \in GenContainers, ch \in {1, 2}, r \in GenRates, m \in {"new", "reader"}}
    \cup {[c |-> c, p |-> ParseOk(2, r), m |-> "new", s |-> 0] :
        c \in SweepContainers, r \in SweepRates}
    \cup {[c |-> c, p |-> ParseOk(2, 48000), m |-> "new", s |-> 0] : c \in E2EContainers}
    \cup {[c |-> c, p |-> ParseOk(2, 48000), m |-> m, s |-> s] :
        c \in BrokenContainers, m \in {"new", "reader"}, s \in 0..MaxStart}
    \cup {[c |-> Headers \o <<AudioPkt(108, 1, TRUE)>>, p |-> ParseErr, m |-> m, s |-> s] :
        m \in {"new", "reader"}, s \in 0..MaxStart}

Init ==
    /\ pc = "start"
    /\ \E inp \in Inputs :
          /\ container = inp.c
          /\ hdrParse = inp.p
          /\ mode = inp.m
          /\ startPos = inp.s
    /\ streamPos = startPos
    /\ pktIdx = 0
    /\ eof = FALSE
    /\ metadata = NoMeta
    /\ ctorResult = None
    /\ buffer = <<>>
    /\ buffer_pos = 0
    /\ toc = NoToc
    /\ loadRes = None
    /\ depth = 0
    /\ result = <<>>
    /\ requests = 0
    /\ emitted = <<>>
    /\ reqLoads = 0
    /\ reqFails = 0
    /\ chunkLen = 0
    /\ chunkOut = 0
    /\ lastIdx = -1
    /\ reqStart = 0
    /\ facade = NoFacade

decoderVars == <<buffer, buffer_pos, toc, loadRes, depth, result, requests, emitted,
                 reqLoads, reqFails, chunkLen, chunkOut, lastIdx, reqStart, facade>>
inputVars == <<mode, container, hdrParse, startPos>>

\* ------------------------------------------------------------- construction
\* OpusDecoder::new (lines 27-38) with from_meta_and_reader (lines 46-64)
New ==
    /\ pc = "start"
    /\ mode = "new"
    /\ LET stream_pos == streamPos
           md == ReadMetadata(container, pktIdx, hdrParse)
       IN IF ~md.ok
          THEN /\ streamPos' = RewindTarget(stream_pos)
               /\ pktIdx' = md.idx
               /\ eof' = md.eof
               /\ metadata' = NoMeta
               /\ ctorResult' = "ErrData"
               /\ pc' = "failed"
          ELSE /\ streamPos' = streamPos + md.used
               /\ pktIdx' = md.idx
               /\ eof' = md.eof
               /\ metadata' = md.meta
               /\ ctorResult' = "Ok"
               /\ pc' = "idle"
    /\ UNCHANGED <<decoderVars, inputVars>>

\* OpusDecoder::from_packet_reader (lines 40-44) with from_meta_and_reader
FromPacketReader ==
    /\ pc = "start"
    /\ mode = "reader"
    /\ LET md == ReadMetadata(container, pktIdx, hdrParse)
       IN /\ streamPos' = streamPos + md.used
          /\ pktIdx' = md.idx
          /\ eof' = md.eof
          /\ IF ~md.ok
             THEN /\ metadata' = NoMeta
                  /\ ctorResult' = md.err
                  /\ pc' = "failed"
             ELSE /\ metadata' = md.meta
                  /\ ctorResult' = "Ok"
                  /\ pc' = "idle"
    /\ UNCHANGED <<decoderVars, inputVars>>

readerVars == <<streamPos, pktIdx, eof>>
ctorVars == <<metadata, ctorResult>>

\* ------------------------------------------------------------- iteration
Halted == pc \in {"panic_slice", "panic_frame_size", "panic_index", "stack_overflow"}

\* the consumer calls next() on the constructed decoder
Request ==
    /\ pc = "idle"
    /\ pc' = "enter"
    /\ depth' = 1
    /\ requests' = requests + 1
    /\ reqLoads' = 0
    /\ reqFails' = 0
    /\ reqStart' = pktIdx
    /\ UNCHANGED <<inputVars, readerVars, ctorVars, buffer, buffer_pos, toc,
                   loadRes, result, emitted, chunkLen, chunkOut, lastIdx, facade>>

\* line 163 true, line 164: the call of load_next_chunk (lines 91-127)
LoadNextChunk ==
    /\ pc = "enter"
    /\ NeedsLoad(buffer)
    /\ LET r == ReadPacketExpected(container, pktIdx) IN
       /\ pktIdx' = r.idx
       /\ streamPos' = streamPos + r.used
       /\ eof' = (eof \/ r.eof)
       /\ reqLoads' = reqLoads + 1
       /\ IF ~r.ok
          THEN \* line 95: the read failed
               /\ loadRes' = "Err"
               /\ reqFails' = reqFails + 1
               /\ pc' = "loadret"
               /\ UNCHANGED <<buffer, toc>>
          ELSE IF Len(r.data) < 1
          THEN \* line 96: data[0..1] of an empty packet
               /\ pc' = "panic_slice"
               /\ UNCHANGED <<buffer, toc, loadRes, reqFails>>
          ELSE LET t == ParseToc(r.data[1]) IN
               IF t.frame_size = 0
               THEN \* line 111
                    /\ pc' = "panic_frame_size"
                    /\ toc' = t
                    /\ UNCHANGED <<buffer, loadRes, reqFails>>
               ELSE LET n == BufferLen(metadata.sample_rate, t.frame_size, t.f, t.s) IN
                    /\ toc' = t
                    /\ pc' = "loadret"
                    /\ IF r.dec
                       THEN /\ buffer' = Pcm(r.data, n)
                            /\ loadRes' = "Ok"
                            /\ UNCHANGED reqFails
                       ELSE /\ \E k \in {0, IF n > 0 THEN 1 ELSE 0} :
                                  buffer' = PartialPcm(r.data, n, k)
                            /\ loadRes' = "Err"
                            /\ reqFails' = reqFails + 1
    /\ UNCHANGED <<inputVars, ctorVars, buffer_pos, depth, result, requests,
                   emitted, chunkLen, chunkOut, lastIdx, reqStart, facade>>

\* lines 164-169: what next() does with the result of load_next_chunk
AfterLoad ==
    /\ pc = "loadret"
    /\ IF loadRes = "Err"
       THEN /\ buffer' = BufferAfterFailedLoad(buffer)
            /\ UNCHANGED <<buffer_pos, chunkLen, chunkOut>>
       ELSE /\ buffer_pos' = CursorAfterLoad(buffer_pos)
            /\ chunkLen' = Len(buffer)
            /\ chunkOut' = 0
            /\ UNCHANGED buffer
    /\ pc' = "advance"
    /\ UNCHANGED <<inputVars, readerVars, ctorVars, toc, loadRes, depth, result,
                   requests, emitted, reqLoads, reqFails, lastIdx, reqStart, facade>>

\* line 163 false: the buffer still holds samples
SkipLoad ==
    /\ pc = "enter"
    /\ ~NeedsLoad(buffer)
    /\ pc' = "advance"
    /\ UNCHANGED <<inputVars, readerVars, ctorVars, decoderVars>>

\* lines 172-183
Advance ==
    /\ pc = "advance"
    /\ buffer_pos' = buffer_pos + 1
    /\ IF PastEnd(buffer_pos', Len(buffer))
       THEN \* lines 175-176: clear and call next() again
            /\ buffer' = <<>>
            /\ IF depth < StackLimit
               THEN /\ depth' = depth + 1
                    /\ pc' = "enter"
               ELSE /\ pc' = "stack_overflow"
                    /\ UNCHANGED depth
            /\ UNCHANGED <<result, emitted, chunkOut, lastIdx>>
       ELSE IF buffer = <<>>
       THEN \* line 180
            /\ result' = <<>>
            /\ pc' = "idle"
            /\ depth' = 0
            /\ UNCHANGED <<buffer, emitted, chunkOut, lastIdx>>
       ELSE IF buffer_pos' - 1 >= Len(buffer)
       THEN \* line 182: index out of bounds
            /\ pc' = "panic_index"
            /\ UNCHANGED <<buffer, depth, result, emitted, chunkOut, lastIdx>>
       ELSE \* line 182
            /\ result' = <<buffer[buffer_pos']>>
            /\ emitted' = Append(emitted, buffer[buffer_pos'])
            /\ lastIdx' = buffer_pos' - 1
            /\ chunkOut' = chunkOut + 1
            /\ pc' = "idle"
            /\ depth' = 0
            /\ UNCHANGED buffer
    /\ UNCHANGED <<inputVars, readerVars, ctorVars, toc, loadRes, requests,
                   reqLoads, reqFails, chunkLen, reqStart, facade>>

\* the consumer reads the four Source methods (lines 138-152) between requests
Query ==
    /\ pc = "idle"
    /\ facade' = [queried |-> TRUE,
                  current_frame_len |-> CurrentFrameLen(buffer),
                  channels |-> Channels(metadata),
                  sample_rate |-> SampleRate(metadata),
                  total_duration |-> TotalDuration,
                  atLen |-> Len(buffer)]
    /\ UNCHANGED <<pc, inputVars, readerVars, ctorVars, buffer, buffer_pos, toc,
                   loadRes, depth, result, requests, emitted, reqLoads, reqFails,
                   chunkLen, chunkOut, lastIdx, reqStart>>

Next ==
    \/ New
    \/ FromPacketReader
    \/ Request
    \/ LoadNextChunk
    \/ AfterLoad
    \/ SkipLoad
    \/ Advance
    \/ Query

Spec == Init /\ [][Next]_vars

\* ================================================================ claims
Constructed == ctorResult = "Ok"
AudioCount == Len(container) - 2

\* C1: once the container has no further packet to deliver (a read has met
\* its end), a next() request never halts abnormally and every completed
\* request returns None.
C1_IdempotentExhaustion ==
    (Constructed /\ eof) => (~Halted /\ (pc = "idle" => result = <<>>))

\* the stream of the end-to-end property: two channels, 48 kHz, every audio
\* packet readable, decodable, configuration 13, stereo, a single frame
IsE2E ==
    /\ Constructed
    /\ metadata = [channel_count |-> 2, sample_rate |-> 48000]
    /\ \A i \in 3..Len(container) :
          /\ container[i].rd /\ container[i].dec /\ Len(container[i].data) > 0
          /\ container[i].data[1] \div 8 = 13
          /\ (container[i].data[1] \div 4) % 2 = 1
          /\ container[i].data[1] % 4 <= 1

\* C2: on such a stream of N packets the iterator yields exactly N * 1920
\* samples and then returns None, with no fault, when the container ends.
C2_EndToEndCount ==
    IsE2E => /\ Len(emitted) <= AudioCount * 1920
             /\ ~Halted
             /\ (eof /\ pc = "idle") =>
                    (result = <<>> /\ Len(emitted) = AudioCount * 1920)

\* C3: after a chunk load has failed within a request, that request reads
\* no further packet and returns None.
C3_NoRetryAfterFailure ==
    [][reqFails > 0 =>
         (pktIdx' = pktIdx /\ (pc' = "idle" => result' = <<>>))]_vars

\* C4: a successfully loaded chunk of length L is returned as buffer[0],
\* ..., buffer[L-1] in order, every index read lies in [0, L), and the next
\* chunk load is requested only after all L samples have been returned.
C4_ChunkDelivery ==
    /\ chunkOut <= chunkLen
    /\ (pc = "idle" /\ result # <<>>) =>
          /\ Len(buffer) = chunkLen
          /\ lastIdx >= 0 /\ lastIdx < chunkLen
          /\ lastIdx = chunkOut - 1
          /\ result[1] = buffer[lastIdx + 1]
    /\ (pc = "loadret") => chunkOut = chunkLen

C4_Witness ==
    pc = "loadret" /\ chunkLen >= 2 /\ chunkOut = chunkLen /\ Len(emitted) >= 2

\* the table of RFC 6716, by ranges, in tenths of a millisecond
PublishedFrameSize(c) ==
    IF c < 12 THEN <<100, 200, 400, 600>>[(c % 4) + 1]
    ELSE IF c < 16 THEN <<100, 200>>[(c % 2) + 1]
    ELSE <<25, 50, 100, 200>>[(c % 4) + 1]

\* C5: the buffer a chunk load allocates has length
\* sample_rate * frame_duration_ms / 1000 * frame_count * channels_per_frame.
C5_BufferLengthFormula ==
    (pc = "loadret" /\ loadRes = "Ok") =>
        Len(buffer) =
            ((metadata.sample_rate * PublishedFrameSize(toc.byte \div 8)) \div 10000)
            * (IF toc.byte % 4 = 0 THEN 1 ELSE toc.byte % 4)
            * (IF (toc.byte \div 4) % 2 = 0 THEN 1 ELSE 2)

\* C6: the resolver returns the published frame duration for every
\* configuration number, the configuration number lies in 0..31, and the
\* unsupported-configuration panic is never reached.
C6_DurationTable ==
    /\ pc # "panic_frame_size"
    /\ toc # NoToc =>
          /\ toc.c \in 0..31
          /\ toc.frame_size = PublishedFrameSize(toc.c)

C6_Witness ==
    pc = "loadret" /\ loadRes = "Ok" /\ toc.byte = 255 /\ toc.frame_size = 200

\* C7: configuration = b div 8, stereo flag = (b div 4) mod 2, frame count =
\* max(b mod 4, 1) for the TOC byte b of every packet parsed.
C7_TocFields ==
    toc # NoToc =>
        /\ toc.c = toc.byte \div 8
        /\ toc.s = (toc.byte \div 4) % 2
        /\ toc.f = (IF toc.byte % 4 >= 1 THEN toc.byte % 4 ELSE 1)

C7_Witness ==
    pc = "loadret" /\ toc.byte = 180 /\ toc.c = 22 /\ toc.s = 1 /\ toc.f = 1

\* C8: when new() fails to read the metadata, the stream is handed back with
\* its read position where it was before the attempt.
C8_ProbeRewinds ==
    (mode = "new" /\ pc = "failed") =>
        (ctorResult = "ErrData" /\ streamPos = startPos)

C8_Witness ==
    mode = "new" /\ pc = "failed" /\ pktIdx = 2 /\ startPos > 0
    /\ streamPos = startPos

\* C9: a successful construction has read exactly the two header packets;
\* the first audio packet is read by the first next() request and is the
\* third packet of the container.
C9_HeaderOrdering ==
    Constructed =>
        /\ requests = 0 => (pktIdx = 2 /\ buffer = <<>> /\ reqLoads = 0)
        /\ (requests = 1 /\ reqLoads = 1 /\ pc = "loadret" /\ Len(container) >= 3) =>
              /\ pktIdx = 3
              /\ loadRes = "Ok" => /\ toc.byte = container[3].data[1]
                                   /\ buffer # <<>> => buffer[1] = Pcm(container[3].data, 1)[1]

C9_Witness ==
    /\ Constructed /\ requests = 1 /\ reqLoads = 1 /\ pc = "loadret"
    /\ pktIdx = 3 /\ loadRes = "Ok" /\ buffer # <<>>

\* C10: a next() request never halts abnormally, whatever the packets are,
\* and a request in which a read or decode failed returns None.
C10_NoFault ==
    /\ ~Halted
    /\ (pc = "idle" /\ reqFails > 0) => result = <<>>

\* C11: every query of the Source methods reports frame length 240 whatever
\* the buffer holds, sample rate 48000, unknown duration and the channel
\* count read at construction; a query changes nothing of the decoder and no
\* step changes the metadata of a constructed decoder.
C11_StaticFacade ==
    /\ [](facade.queried =>
            /\ facade.current_frame_len = <<240>>
            /\ facade.sample_rate = 48000
            /\ facade.total_duration = <<>>
            /\ facade.channels = hdrParse.meta.channel_count)
    /\ [](Constructed => metadata = hdrParse.meta)
    /\ [][/\ Constructed => metadata' = metadata
          /\ facade' # facade =>
                UNCHANGED <<buffer, buffer_pos, metadata, pktIdx, streamPos, pc>>]_vars

C11_Witness ==
    /\ pc = "idle" /\ facade.queried /\ facade.atLen = Len(buffer)
    /\ Len(buffer) = 3 /\ buffer_pos = 1 /\ reqFails > 0

\* the declared sample rates of the model
DeclaredRates == GenRates \cup SweepRates \cup {48000}

\* C12: the buffer allocated for a packet is the same whatever sample rate
\* the metadata declares: a decoder that differs only in the declared rate
\* allocates the same length for the same packet.
C12_RateIndependence ==
    (pc = "loadret" /\ loadRes = "Ok") =>
        \A r \in DeclaredRates :
            BufferLen(r, toc.frame_size, toc.f, toc.s) = Len(buffer)

\* C13: the chunk-load attempts and the nested calls of one next() request
\* number at most the packets unread when the request began plus one, and
\* the request does not exhaust the stack.
C13_BoundedRetry ==
    (Constructed /\ requests > 0) =>
        /\ reqLoads <= (Len(container) - reqStart) + 1
        /\ depth <= (Len(container) - reqStart) + 1
        /\ pc # "stack_overflow"

C15_BufferReplacement ==
    [][/\ reqLoads' = reqLoads + 1 => buffer = <<>>
       /\ (pc = "enter" /\ pc' = "loadret" /\ loadRes' = "Ok") =>
             buffer' = Pcm(container[pktIdx'].data, Len(buffer'))
       /\ (pc = "loadret" /\ loadRes = "Ok") =>
             (buffer' = buffer /\ buffer_pos' = 0)
       /\ (buffer # <<>> /\ pc \in {"idle", "enter"}) =>
             UNCHANGED <<buffer, buffer_pos, pktIdx>>
       /\ (pc = "advance" /\ pc' = "idle") =>
             (buffer' = buffer /\ buffer_pos' = buffer_pos + 1)
       /\ (pc = "advance" /\ buffer' # buffer) =>
             (buffer' = <<>> /\ buffer_pos = Len(buffer))]_vars

C15_Witness ==
    /\ pc = "advance" /\ loadRes = "Ok" /\ pktIdx = 4 /\ buffer_pos = 0
    /\ Len(buffer) = 3 /\ Len(emitted) = 2 /\ reqFails = 0

RECURSIVE BytesOf(_, _)
\* bytes of the first k packets of a container
BytesOf(cont, k) == IF k = 0 THEN 0 ELSE BytesOf(cont, k - 1) + PacketBytes(cont[k])

\* C16: when from_packet_reader fails to read the metadata it returns the
\* InvalidHeaderData error whichever of the two reads or the parse failed,
\* constructs no decoder, leaves the packet source where the reads left it,
\* and does not read the comment packet when the identification packet
\* could not be read.
C16_ReaderFailure ==
    (mode = "reader" /\ pc = "failed") =>
        /\ ctorResult = "InvalidHeaderData"
        /\ metadata = NoMeta /\ buffer = <<>> /\ requests = 0
        /\ streamPos = startPos + BytesOf(container, pktIdx)
        /\ pktIdx <= 2
        /\ (Len(container) >= 1 /\ ~container[1].rd) => pktIdx = 1
        /\ Len(container) = 0 => pktIdx = 0

C16_Witness ==
    /\ mode = "reader" /\ pc = "failed" /\ Len(container) = 3
    /\ ~container[1].rd /\ pktIdx = 1 /\ streamPos > startPos

\* C17: no sample of a failed chunk is emitted: every sample returned was
\* read from a buffer whose decode call succeeded, and the buffer a failed
\* load leaves behind is cleared before the cursor moves.
C17_NoFailedChunkSample ==
    /\ (pc = "advance" /\ loadRes = "Err") => buffer = <<>>
    /\ (pc = "idle" /\ result # <<>>) =>
          /\ loadRes = "Ok"
          /\ container[pktIdx].rd /\ container[pktIdx].dec
          /\ result[1] = Pcm(container[pktIdx].data, lastIdx + 1)[lastIdx + 1]

C17_Witness ==
    /\ pc = "idle" /\ result # <<>> /\ reqFails > 0 /\ pktIdx = 4
    /\ container[3].rd /\ ~container[3].dec /\ Len(container[3].data) > 0

\* length of the buffer the packet decodes to, 0 when its read or decode fails
ChunkLenOf(p, rate) ==
    IF p.rd /\ p.dec /\ Len(p.data) > 0
    THEN BufferLen(rate, FrameSize(p.data[1] \div 8),
                   IF p.data[1] % 4 = 0 THEN 1 ELSE p.data[1] % 4,
                   (p.data[1] \div 4) % 2)
    ELSE 0

RECURSIVE DecodedLen(_, _, _)
\* length of the chunks of the audio packets 3..k, concatenated
DecodedLen(cont, k, rate) ==
    IF k <= 2 THEN 0
    ELSE DecodedLen(cont, k - 1, rate) + ChunkLenOf(cont[k], rate)

RECURSIVE DecodedAt(_, _, _, _)
\* the n-th sample of the chunks of the audio packets 3..k, concatenated in
\* container order (n within the length of the concatenation)
DecodedAt(cont, k, rate, n) ==
    LET before == DecodedLen(cont, k - 1, rate) IN
    IF n > before
    THEN Pcm(cont[k].data, n - before)[n - before]
    ELSE DecodedAt(cont, k - 1, rate, n)

\* samples of the current chunk not yet returned
Undelivered ==
    IF buffer = <<>> \/ loadRes # "Ok" THEN 0
    ELSE IF pc = "loadret" THEN Len(buffer)
    ELSE Len(buffer) - buffer_pos

\* C18: each chunk-load attempt reads at most one packet, packets are read in
\* container order and never again, and the samples emitted are the
\* concatenation, in packet order, of the buffers of the successfully
\* decoded packets read so far, less the part of the current one not yet
\* returned: the emitted sequence only grows at its end, it is as long as
\* that concatenation and its newest sample is the sample of the
\* concatenation at the same place.
C18_SinglePass ==
    /\ [](Constructed =>
            /\ pktIdx <= Len(container)
            /\ Len(emitted) =
                  DecodedLen(container, pktIdx, metadata.sample_rate) - Undelivered
            /\ emitted # <<>> =>
                  emitted[Len(emitted)] =
                      DecodedAt(container, pktIdx, metadata.sample_rate, Len(emitted)))
    /\ [][/\ pc # "start" =>
                \/ pktIdx' = pktIdx
                \/ (pktIdx' = pktIdx + 1 /\ reqLoads' = reqLoads + 1)
          /\ \/ emitted' = emitted
             \/ (Len(emitted') = Len(emitted) + 1
                 /\ SubSeq(emitted', 1, Len(emitted)) = emitted)]_vars

C18_Witness ==
    /\ pc = "idle" /\ pktIdx = 4 /\ Len(emitted) = 4 /\ buffer_pos = 2
    /\ container[3].dec /\ container[4].dec
====
